---------------------------- MODULE Spec2Model ----------------------------
(***************************************************************************)
(* A model of download_lorcanajson.py: the conversion of upstream card     *)
(* records to the app format, the per-set catalogs written to the data     *)
(* directory, the index of the previous catalogs and the migration map.    *)
(*                                                                         *)
(* Python values are modelled as follows.  A str is a sequence of          *)
(* one-character strings ("" is <<>>).  None is NoneStr where a str is     *)
(* expected and NoneNum where an int is expected; both lie outside the     *)
(* values a str or a parsed collector number can take.  A dict read from   *)
(* JSON is a function from key names to values, and d.get(k) is Get(d, k). *)
(***************************************************************************)
EXTENDS Integers, Sequences, FiniteSets, TLC

\* --------------------------------------------------------------------
\* Python values and string operations
\* --------------------------------------------------------------------

NoneStr == <<"None">>
NoneNum == -1

\* Python truthiness of a str-or-None and of an int-or-None.
TruthyStr(s) == s # NoneStr /\ s # <<>>
TruthyNum(n) == n # NoneNum /\ n # 0

\* Characters in code-point order, for the comparisons made by sorted().
CharOrder ==
    <<" ","'","-",".","/","0","1","2","3","4","5","6","7","8","9",":",
      "A","B","C","D","E","F","G","H","I","J","K","L","M","N","O","P","Q",
      "R","S","T","U","V","W","X","Y","Z","_",
      "a","b","c","d","e","f","g","h","i","j","k","l","m","n","o","p","q",
      "r","s","t","u","v","w","x","y","z","|">>

OrdTable ==
    [c \in {CharOrder[i] : i \in 1..Len(CharOrder)} |->
        CHOOSE i \in 1..Len(CharOrder) : CharOrder[i] = c]

Ord(c) == OrdTable[c]

UpperAlpha ==
    <<"A","B","C","D","E","F","G","H","I","J","K","L","M","N","O","P","Q",
      "R","S","T","U","V","W","X","Y","Z">>

LowerAlpha ==
    <<"a","b","c","d","e","f","g","h","i","j","k","l","m","n","o","p","q",
      "r","s","t","u","v","w","x","y","z">>

LowerTable ==
    [c \in {UpperAlpha[i] : i \in 1..26} |->
        LowerAlpha[CHOOSE i \in 1..26 : UpperAlpha[i] = c]]

LowerChar(c) == IF c \in DOMAIN LowerTable THEN LowerTable[c] ELSE c

\* str.lower()
Lower(s) == [i \in 1..Len(s) |-> LowerChar(s[i])]

\* str.replace(c, to) for a one-character c.
RECURSIVE Replace(_, _, _)
Replace(s, c, to) ==
    IF s = <<>> THEN <<>>
    ELSE (IF Head(s) = c THEN to ELSE <<Head(s)>>) \o Replace(Tail(s), c, to)

\* w in s
Contains(s, w) ==
    \E i \in 1..(Len(s) - Len(w) + 1) : SubSeq(s, i, i + Len(w) - 1) = w

\* s.startswith(w)
StartsWith(s, w) == Len(s) >= Len(w) /\ SubSeq(s, 1, Len(w)) = w

\* s < t for two str.
RECURSIVE StrLess(_, _)
StrLess(s, t) ==
    IF t = <<>> THEN FALSE
    ELSE IF s = <<>> THEN TRUE
    ELSE IF Head(s) # Head(t) THEN Ord(Head(s)) < Ord(Head(t))
    ELSE StrLess(Tail(s), Tail(t))

DigitChars == <<"0","1","2","3","4","5","6","7","8","9">>

IsDigit(c) == \E i \in 1..10 : DigitChars[i] = c

DigitVal(c) == (CHOOSE i \in 1..10 : DigitChars[i] = c) - 1

\* int(s) for a non-empty s over digits and letters: the value, or NoneNum
\* where int() raises ValueError.
RECURSIVE ParseAcc(_, _)
ParseAcc(s, acc) ==
    IF s = <<>> THEN acc
    ELSE IF ~IsDigit(Head(s)) THEN NoneNum
    ELSE ParseAcc(Tail(s), 10 * acc + DigitVal(Head(s)))

ParseInt(s) == ParseAcc(s, 0)

\* str(n) for n >= 0.
RECURSIVE Digits(_)
Digits(n) ==
    IF n < 10 THEN <<DigitChars[n + 1]>>
    ELSE Digits(n \div 10) \o <<DigitChars[(n % 10) + 1]>>

\* f"{n:03d}" for n >= 0.
Pad3(n) ==
    LET d == Digits(n)
    IN  IF Len(d) >= 3 THEN d
        ELSE [i \in 1..(3 - Len(d)) |-> "0"] \o d

\* dict.get(k), None being whatever `none` the caller expects.
Get(d, k, none) == IF k \in DOMAIN d THEN d[k] ELSE none

\* --------------------------------------------------------------------
\* Program constants
\* --------------------------------------------------------------------

SET_CODE_MAP ==
    { <<<<"T","h","e"," ","F","i","r","s","t"," ","C","h","a","p","t","e","r">>,
        <<"T","F","C">>>>,
      <<<<"R","i","s","e"," ","o","f"," ","t","h","e"," ","F","l","o","o","d","b","o","r","n">>,
        <<"R","O","F">>>>,
      <<<<"I","n","t","o"," ","t","h","e"," ","I","n","k","l","a","n","d","s">>,
        <<"I","T","I">>>>,
      <<<<"U","r","s","u","l","a","'","s"," ","R","e","t","u","r","n">>,
        <<"T","U","R">>>>,
      <<<<"S","h","i","m","m","e","r","i","n","g"," ","S","k","i","e","s">>,
        <<"S","S","K">>>>,
      <<<<"A","z","u","r","i","t","e"," ","S","e","a">>,
        <<"A","Z","S">>>>,
      <<<<"F","a","b","l","e","d">>,
        <<"F","A","B">>>>,
      <<<<"A","r","c","h","a","z","i","a","'","s"," ","I","s","l","a","n","d">>,
        <<"A","R","I">>>>,
      <<<<"R","e","i","g","n"," ","o","f"," ","J","a","f","a","r">>,
        <<"R","O","J">>>>,
      <<<<"W","h","i","s","p","e","r","s"," ","i","n"," ","t","h","e"," ","W","e","l","l">>,
        <<"W","I","W">>>>,
      <<<<"P","r","o","m","o"," ","S","e","t"," ","1">>,
        <<"P","1">>>>,
      <<<<"P","r","o","m","o"," ","S","e","t"," ","2">>,
        <<"P","2">>>>,
      <<<<"C","h","a","l","l","e","n","g","e"," ","P","r","o","m","o">>,
        <<"C","P">>>>,
      <<<<"D","2","3"," ","C","o","l","l","e","c","t","i","o","n">>,
        <<"D","2","3">>>> }

\* SET_CODE_MAP.get(set_name, default)
SetCodeGet(set_name, default) ==
    IF \E e \in SET_CODE_MAP : e[1] = set_name
    THEN (CHOOSE e \in SET_CODE_MAP : e[1] = set_name)[2]
    ELSE default

kwEnchanted == <<"e","n","c","h","a","n","t","e","d">>
kwEpic == <<"e","p","i","c">>
kwIconic == <<"i","c","o","n","i","c">>
kwPromo == <<"p","r","o","m","o">>
kwNormal == <<"n","o","r","m","a","l">>

Normal == <<"N","o","r","m","a","l">>
Enchanted == <<"E","n","c","h","a","n","t","e","d">>
Epic == <<"E","p","i","c">>
Iconic == <<"I","c","o","n","i","c">>
Promo == <<"P","r","o","m","o">>
Foil == <<"F","o","i","l">>
Borderless == <<"B","o","r","d","e","r","l","e","s","s">>

VARIANT_MAP ==
    { <<kwNormal, Normal>>,
      <<<<"f","o","i","l">>, Foil>>,
      <<kwEnchanted, Enchanted>>,
      <<kwPromo, Promo>>,
      <<<<"b","o","r","d","e","r","l","e","s","s">>, Borderless>>,
      <<kwEpic, Epic>>,
      <<kwIconic, Iconic>> }

\* VARIANT_MAP.get(variant_raw, "Normal")
VariantGet(variant_raw) ==
    IF \E e \in VARIANT_MAP : e[1] = variant_raw
    THEN (CHOOSE e \in VARIANT_MAP : e[1] = variant_raw)[2]
    ELSE Normal

\* --------------------------------------------------------------------
\* convert_card_to_app_format
\* --------------------------------------------------------------------
\* A raw record is [name, version, set_name, set_code, collector_number,
\* rarity, image_uris]; a key the record lacks reads as "" (the default of
\* every card.get the conversion makes on these keys).  image_uris is
\* [digital |-> [large, normal, small], large, normal, small], an absent
\* URL being "".  The fields the conversion only copies (cost, type,
\* cardText, inkwell, strength, willpower, lore, inkColor) are left out.

\* variant_raw_of with the promo hint looked at first.
variant_raw_promo_first(card) ==
    LET rarity_raw == Lower(card.rarity)
    IN  IF Contains(Lower(card.set_name), kwPromo)
           \/ Contains(rarity_raw, kwPromo) THEN kwPromo
        ELSE IF Contains(rarity_raw, kwEnchanted) THEN kwEnchanted
        ELSE IF Contains(rarity_raw, kwEpic) THEN kwEpic
        ELSE IF Contains(rarity_raw, kwIconic) THEN kwIconic
        ELSE kwNormal

variant_raw_of(card) ==
    LET rarity_raw == Lower(card.rarity)
    IN  IF Contains(rarity_raw, kwEnchanted) THEN kwEnchanted
        ELSE IF Contains(rarity_raw, kwEpic) THEN kwEpic
        ELSE IF Contains(rarity_raw, kwIconic) THEN kwIconic
        ELSE IF Contains(Lower(card.set_name), kwPromo)
                \/ Contains(rarity_raw, kwPromo) THEN kwPromo
        ELSE kwNormal

card_num_of(card) ==
    IF card.collector_number # <<>> THEN ParseInt(card.collector_number)
    ELSE NoneNum

unique_id_of(set_code, card_num) ==
    IF TruthyNum(card_num) /\ set_code # <<>>
    THEN set_code \o <<"-">> \o Pad3(card_num)
    ELSE NoneStr

full_name_of(card) ==
    IF card.version # <<>>
    THEN card.name \o <<" ","-"," ">> \o card.version
    ELSE card.name

name_part_of(full_name) ==
    Replace(Replace(Replace(full_name, " ", <<"_">>), "-", <<"_">>), "'", <<>>)

card_id_of(set_name, card_num, full_name, variant) ==
    Replace(set_name, " ", <<"_">>) \o <<"_">>
      \o Digits(IF TruthyNum(card_num) THEN card_num ELSE 0) \o <<"_">>
      \o name_part_of(full_name)
      \o (IF variant # Normal THEN <<"_">> \o variant ELSE <<>>)

LocalPrefix == <<"l","o","c","a","l",":","/","/">>

FirstOf(a, b, c) == IF a # <<>> THEN a ELSE IF b # <<>> THEN b ELSE c

image_url_of(image_uris, unique_id, variant, variant_raw) ==
    LET digital == FirstOf(image_uris.digital.large, image_uris.digital.normal,
                           image_uris.digital.small)
        flat    == FirstOf(image_uris.large, image_uris.normal, image_uris.small)
        url     == IF digital # <<>> THEN digital ELSE flat
    IN  IF url # <<>> THEN url
        ELSE IF TruthyStr(unique_id)
        THEN LocalPrefix \o unique_id
               \o (IF variant = Normal THEN <<>> ELSE <<"-">> \o variant_raw)
        ELSE <<>>

convert_card_to_app_format(card) ==
    LET set_name    == card.set_name
        set_code    == SetCodeGet(set_name, card.set_code)
        variant_raw == variant_raw_of(card)
        variant     == VariantGet(variant_raw)
        card_num    == card_num_of(card)
        unique_id   == unique_id_of(set_code, card_num)
        full_name   == full_name_of(card)
    IN  [ id         |-> card_id_of(set_name, card_num, full_name, variant),
          name       |-> full_name,
          setName    |-> set_name,
          imageUrl   |-> image_url_of(card.image_uris, unique_id, variant, variant_raw),
          variant    |-> variant,
          cardNumber |-> card_num,
          uniqueId   |-> unique_id ]

\* --------------------------------------------------------------------
\* The data directory
\* --------------------------------------------------------------------
\* disk.exists is os.path.exists(DATA_DIR); disk.files maps each file name
\* of the directory to the JSON value it holds, [corrupt |-> TRUE] standing
\* for a file json.load cannot read.

DotJson == <<".","j","s","o","n">>

EndsWith(s, w) ==
    Len(s) >= Len(w) /\ SubSeq(s, Len(s) - Len(w) + 1, Len(s)) = w

MigrationFileName ==
    <<"m","i","g","r","a","t","i","o","n","_","m","a","p">> \o DotJson

\* The file name of a set's catalog.
filename_of(set_name) ==
    Replace(Replace(Lower(set_name), " ", <<"_">>), "'", <<>>) \o DotJson

\* --------------------------------------------------------------------
\* load_existing_cards
\* --------------------------------------------------------------------

uidKey(unique_id) == <<"u","i","d",":">> \o unique_id

nameKey(card_name, set_name) ==
    <<"n","a","m","e",":">> \o card_name \o <<"|","s","e","t",":">> \o set_name

numKey(card_num, set_name) ==
    <<"n","u","m",":">> \o Digits(card_num) \o <<"|","s","e","t",":">> \o set_name

\* a or b, for str-or-None values and for int-or-None values.
OrStr(a, b) == IF TruthyStr(a) THEN a ELSE b
OrNum(a, b) == IF TruthyNum(a) THEN a ELSE b

\* index_card without the key of the uniqueId.
index_card_no_uid(existing, card) ==
    LET card_name == OrStr(Get(card, "name", NoneStr), Get(card, "Name", <<>>))
        set_name  == OrStr(Get(card, "setName", NoneStr), Get(card, "Set_Name", <<>>))
        card_num  == OrNum(Get(card, "cardNumber", NoneNum), Get(card, "Card_Num", NoneNum))
        e2 == IF TruthyStr(card_name) /\ TruthyStr(set_name)
              THEN (nameKey(card_name, set_name) :> card) @@ existing ELSE existing
        e3 == IF TruthyNum(card_num) /\ TruthyStr(set_name)
              THEN (numKey(card_num, set_name) :> card) @@ e2 ELSE e2
    IN  IF ~TruthyStr(card_name) THEN existing ELSE e3

\* index_card that leaves a key it finds to the card stored first.
index_card_keep_first(existing, card) ==
    LET card_name == OrStr(Get(card, "name", NoneStr), Get(card, "Name", <<>>))
        set_name  == OrStr(Get(card, "setName", NoneStr), Get(card, "Set_Name", <<>>))
        unique_id == OrStr(Get(card, "uniqueId", NoneStr), Get(card, "Unique_ID", <<>>))
        card_num  == OrNum(Get(card, "cardNumber", NoneNum), Get(card, "Card_Num", NoneNum))
        e1 == IF TruthyStr(unique_id)
              THEN existing @@ (uidKey(unique_id) :> card) ELSE existing
        e2 == IF TruthyStr(card_name) /\ TruthyStr(set_name)
              THEN e1 @@ (nameKey(card_name, set_name) :> card) ELSE e1
        e3 == IF TruthyNum(card_num) /\ TruthyStr(set_name)
              THEN e2 @@ (numKey(card_num, set_name) :> card) ELSE e2
    IN  IF ~TruthyStr(card_name) THEN existing ELSE e3

\* One card of an old file: the keys it is stored under.
index_card(existing, card) ==
    LET card_name == OrStr(Get(card, "name", NoneStr), Get(card, "Name", <<>>))
        set_name  == OrStr(Get(card, "setName", NoneStr), Get(card, "Set_Name", <<>>))
        unique_id == OrStr(Get(card, "uniqueId", NoneStr), Get(card, "Unique_ID", <<>>))
        card_num  == OrNum(Get(card, "cardNumber", NoneNum), Get(card, "Card_Num", NoneNum))
        e1 == IF TruthyStr(unique_id)
              THEN (uidKey(unique_id) :> card) @@ existing ELSE existing
        e2 == IF TruthyStr(card_name) /\ TruthyStr(set_name)
              THEN (nameKey(card_name, set_name) :> card) @@ e1 ELSE e1
        e3 == IF TruthyNum(card_num) /\ TruthyStr(set_name)
              THEN (numKey(card_num, set_name) :> card) @@ e2 ELSE e2
    IN  IF ~TruthyStr(card_name) THEN existing ELSE e3

RECURSIVE index_cards(_, _)
index_cards(existing, cards) ==
    IF cards = <<>> THEN existing
    ELSE index_cards(index_card(existing, Head(cards)), Tail(cards))

\* cards_of_file that takes the entries of a migration map for cards.
cards_of_file_with_mappings(filename, data) ==
    IF ~EndsWith(filename, DotJson) THEN <<>>
    ELSE IF "corrupt" \in DOMAIN data THEN <<>>
    ELSE IF "mappings" \in DOMAIN data
    THEN [i \in 1..Len(data.mappings) |->
            [ id       |-> data.mappings[i].v.old_id,
              name     |-> data.mappings[i].v.name,
              setName  |-> data.mappings[i].v.set,
              uniqueId |-> data.mappings[i].v.new_unique_id ]]
    ELSE Get(data, "cards", <<>>)

\* The cards of one file of the directory listing that the loop of lines
\* 209-227 goes through: none when the file is skipped (line 201) or
\* json.load raises (line 229).
cards_of_file(filename, data) ==
    IF ~EndsWith(filename, DotJson) THEN <<>>
    ELSE IF "corrupt" \in DOMAIN data THEN <<>>
    ELSE Get(data, "cards", <<>>)

load_file(existing, filename, data) ==
    index_cards(existing, cards_of_file(filename, data))

\* The indexes that result from the files `names` in each of their orders.
RECURSIVE load_listing(_, _, _)
load_listing(existing, files, names) ==
    IF names = {} THEN {existing}
    ELSE UNION { load_listing(load_file(existing, f, files[f]), files, names \ {f})
                 : f \in names }

\* The indexes load_existing_cards can return: one for each order in which
\* os.listdir may list the files.  A file without cards leaves the index
\* as it is wherever it is listed, so the orders of the others are enough.
load_existing_cards(d) ==
    IF ~d.exists THEN {<<>>}
    ELSE load_listing(<<>>, d.files,
             {f \in DOMAIN d.files : cards_of_file(f, d.files[f]) # <<>>})

\* --------------------------------------------------------------------
\* build_migration_map
\* --------------------------------------------------------------------
\* old_cards.get(key); a miss is None, which is as falsy as the empty dict.
NoCard == <<>>

Lookup(old_cards, key) ==
    IF key \in DOMAIN old_cards THEN old_cards[key] ELSE NoCard

\* match_of with strategies 1 and 2 in the other order.
match_of_name_first(old_cards, new_card) ==
    LET c2 == Lookup(old_cards, nameKey(new_card.name, new_card.setName))
        c1 == IF c2 = NoCard /\ TruthyStr(new_card.uniqueId)
              THEN Lookup(old_cards, uidKey(new_card.uniqueId)) ELSE c2
        c3 == IF c1 = NoCard /\ TruthyNum(new_card.cardNumber)
              THEN Lookup(old_cards, numKey(new_card.cardNumber, new_card.setName))
              ELSE c1
    IN  [ old_card |-> c3,
          strategy |-> IF c2 # NoCard THEN 2
                       ELSE IF c1 # NoCard THEN 1
                       ELSE IF c3 # NoCard THEN 3 ELSE 0 ]

\* The old card the three strategies settle on for a new card, and the
\* strategy (1, 2, 3) that found it; strategy 0 is no hit.
match_of(old_cards, new_card) ==
    LET new_unique_id == new_card.uniqueId
        new_name == new_card.name
        new_set  == new_card.setName
        new_num  == new_card.cardNumber
        c1 == IF TruthyStr(new_unique_id)
              THEN Lookup(old_cards, uidKey(new_unique_id)) ELSE NoCard
        c2 == IF c1 = NoCard
              THEN Lookup(old_cards, nameKey(new_name, new_set)) ELSE c1
        c3 == IF c2 = NoCard /\ TruthyNum(new_num)
              THEN Lookup(old_cards, numKey(new_num, new_set)) ELSE c2
    IN  [ old_card |-> c3,
          strategy |-> IF c1 # NoCard THEN 1
                       ELSE IF c2 # NoCard THEN 2
                       ELSE IF c3 # NoCard THEN 3 ELSE 0 ]

mmUniqueId == <<"u","n","i","q","u","e","I","d">>
mmNameSet  == <<"n","a","m","e","+","s","e","t">>

\* match_method_of that looks at the new uniqueId alone, not at the index.
match_method_by_presence(old_cards, new_unique_id) ==
    IF TruthyStr(new_unique_id) THEN mmUniqueId ELSE mmNameSet

match_method_of(old_cards, new_unique_id) ==
    IF TruthyStr(new_unique_id) /\ uidKey(new_unique_id) \in DOMAIN old_cards
    THEN mmUniqueId ELSE mmNameSet

\* dict_set that leaves a key it finds as it is.
dict_set_keep_first(m, key, value) ==
    IF \E i \in 1..Len(m) : m[i].k = key THEN m
    ELSE Append(m, [k |-> key, v |-> value])

\* migration_map[key] = value on a dict, which keeps its keys in the order
\* of their first insertion: the map is the sequence of its items [k, v].
dict_set(m, key, value) ==
    IF \E i \in 1..Len(m) : m[i].k = key
    THEN [i \in 1..Len(m) |-> IF m[i].k = key THEN [k |-> key, v |-> value] ELSE m[i]]
    ELSE Append(m, [k |-> key, v |-> value])

\* The entry stored under the new id.
entry_key_new_id(old_id, new_card) == new_card.id

\* The key and the value of the assignment of lines 272-280.
entry_key(old_id, new_card) == old_id

entry_of(old_cards, old_id, new_card) ==
    [ old_id        |-> old_id,
      new_id        |-> new_card.id,
      new_unique_id |-> new_card.uniqueId,
      name          |-> new_card.name,
      set           |-> new_card.setName,
      variant       |-> new_card.variant,
      match_method  |-> match_method_of(old_cards, new_card.uniqueId) ]

\* migrate_card that maps a card without an old card to itself.
migrate_card_or_self(migration_map, old_cards, new_card) ==
    LET old_card == match_of(old_cards, new_card).old_card
        old_id   == IF old_card # NoCard THEN Get(old_card, "id", NoneStr)
                    ELSE new_card.id
    IN  IF TruthyStr(old_id)
        THEN dict_set(migration_map, entry_key(old_id, new_card),
                      entry_of(old_cards, old_id, new_card))
        ELSE migration_map

\* migrate_card that also enters the old card of the same name and set
\* when the uniqueId has found another.
migrate_card_all_hits(migration_map, old_cards, new_card) ==
    LET old_card == match_of(old_cards, new_card).old_card
        old_id   == IF old_card # NoCard THEN Get(old_card, "id", NoneStr)
                    ELSE NoneStr
        by_name  == Lookup(old_cards, nameKey(new_card.name, new_card.setName))
        name_id  == IF by_name # NoCard THEN Get(by_name, "id", NoneStr)
                    ELSE NoneStr
        m1 == IF TruthyStr(old_id)
              THEN dict_set(migration_map, entry_key(old_id, new_card),
                            entry_of(old_cards, old_id, new_card))
              ELSE migration_map
    IN  IF TruthyStr(name_id)
        THEN dict_set(m1, entry_key(name_id, new_card),
                      entry_of(old_cards, name_id, new_card))
        ELSE m1

\* migrate_card that leaves the entry of an old id it has already entered.
migrate_card_keep_first(migration_map, old_cards, new_card) ==
    LET old_card == match_of(old_cards, new_card).old_card
        old_id   == IF old_card # NoCard THEN Get(old_card, "id", NoneStr)
                    ELSE NoneStr
    IN  IF TruthyStr(old_id)
           /\ \A i \in 1..Len(migration_map) : migration_map[i].k # old_id
        THEN dict_set(migration_map, entry_key(old_id, new_card),
                      entry_of(old_cards, old_id, new_card))
        ELSE migration_map

\* One iteration of the loop over new_cards.
migrate_card(migration_map, old_cards, new_card) ==
    LET old_card == match_of(old_cards, new_card).old_card
        old_id   == IF old_card # NoCard THEN Get(old_card, "id", NoneStr)
                    ELSE NoneStr
    IN  IF TruthyStr(old_id)
        THEN dict_set(migration_map, entry_key(old_id, new_card),
                      entry_of(old_cards, old_id, new_card))
        ELSE migration_map

RECURSIVE build_migration_map(_, _)
build_migration_map(old_cards, new_cards) ==
    IF new_cards = <<>> THEN <<>>
    ELSE migrate_card(build_migration_map(old_cards, SubSeq(new_cards, 1, Len(new_cards) - 1)),
                      old_cards, new_cards[Len(new_cards)])

\* --------------------------------------------------------------------
\* fetch_all_cards_from_api
\* --------------------------------------------------------------------
\* The upstream catalog is a sequence of raw records.  /sets lists the set
\* codes in the order of their first record; cards/search?q=set:<code>
\* answers the records of that set, q=rarity:epic and q=rarity:iconic the
\* records of that rarity.  Each request either answers or fails
\* (fetch_json returns None).

RECURSIVE api_sets(_, _)
api_sets(cards, seen) ==
    IF cards = <<>> THEN <<>>
    ELSE IF Head(cards).set_code \in seen THEN api_sets(Tail(cards), seen)
    ELSE <<Head(cards).set_code>>
           \o api_sets(Tail(cards), seen \cup {Head(cards).set_code})

cards_of_set(cards, code) == SelectSeq(cards, LAMBDA c : c.set_code = code)

cards_of_rarity(cards, kw) == SelectSeq(cards, LAMBDA c : Lower(c.rarity) = kw)

RECURSIVE fetch_sets(_, _, _)
fetch_sets(cards, sets, failed) ==
    IF sets = <<>> THEN <<>>
    ELSE (IF Head(sets) \in failed THEN <<>>
          ELSE cards_of_set(cards, Head(sets)))
           \o fetch_sets(cards, Tail(sets), failed)

\* The result is [none |-> TRUE] for None, else [none |-> FALSE, cards].
fetch_all_cards_from_api(cards, sets_ok, failed, epic_ok, iconic_ok) ==
    IF ~sets_ok THEN [none |-> TRUE, cards |-> <<>>]
    ELSE [ none  |-> FALSE,
           cards |-> fetch_sets(cards, api_sets(cards, {}), failed)
                       \o (IF epic_ok THEN cards_of_rarity(cards, kwEpic)
                           ELSE <<>>)
                       \o (IF iconic_ok THEN cards_of_rarity(cards, kwIconic)
                           ELSE <<>>) ]

\* --------------------------------------------------------------------
\* download_and_convert: grouping, deduplication, sorting
\* --------------------------------------------------------------------

\* Step 3: the converted cards grouped by set name, those without a set
\* name skipped.
RECURSIVE group_by_set(_)
group_by_set(raws) ==
    IF raws = <<>> THEN <<>>
    ELSE LET rest     == group_by_set(SubSeq(raws, 1, Len(raws) - 1))
             app_card == convert_card_to_app_format(raws[Len(raws)])
             set_name == app_card.setName
         IN  IF set_name = <<>> THEN rest
             ELSE IF set_name \in DOMAIN rest
             THEN [rest EXCEPT ![set_name] = Append(@, app_card)]
             ELSE (set_name :> <<app_card>>) @@ rest

\* sorted() of a set of str.
RECURSIVE SortedNames(_)
SortedNames(S) ==
    IF S = {} THEN <<>>
    ELSE LET m == CHOOSE x \in S : \A y \in S \ {x} : StrLess(x, y)
         IN  <<m>> \o SortedNames(S \ {m})

\* dedup that keeps the last card of an id instead of the first.
RECURSIVE dedup_keep_last(_)
dedup_keep_last(cards) ==
    IF cards = <<>> THEN <<>>
    ELSE LET rest == dedup_keep_last(Tail(cards))
         IN  IF \E i \in 1..Len(rest) : rest[i].id = Head(cards).id
             THEN rest
             ELSE <<Head(cards)>> \o rest

\* Deduplicate cards by ID.
RECURSIVE dedup(_)
dedup(cards) ==
    IF cards = <<>> THEN <<>>
    ELSE LET unique_cards == dedup(SubSeq(cards, 1, Len(cards) - 1))
             card == cards[Len(cards)]
         IN  IF \E i \in 1..Len(unique_cards) : unique_cards[i].id = card.id
             THEN unique_cards
             ELSE Append(unique_cards, card)

\* The sort key (c.get("cardNumber") or 0, c.get("variant", "")).
sort_num(c) == IF TruthyNum(c.cardNumber) THEN c.cardNumber ELSE 0

KeyLess(a, b) ==
    \/ sort_num(a) < sort_num(b)
    \/ sort_num(a) = sort_num(b) /\ StrLess(a.variant, b.variant)

\* list.sort is stable: a card goes behind every card whose key is not
\* greater than its own.
Insert(sorted, c) ==
    LET k == Cardinality({i \in 1..Len(sorted) : ~KeyLess(c, sorted[i])})
    IN  SubSeq(sorted, 1, k) \o <<c>> \o SubSeq(sorted, k + 1, Len(sorted))

RECURSIVE sort_cards(_)
sort_cards(cards) ==
    IF cards = <<>> THEN <<>>
    ELSE Insert(sort_cards(SubSeq(cards, 1, Len(cards) - 1)), cards[Len(cards)])

\* The catalog of one set (lines 397-418).
set_data_of(set_name, cards) ==
    LET unique_cards == sort_cards(dedup(cards))
    IN  [ setName   |-> set_name,
          setCode   |-> SetCodeGet(set_name, <<"U","N","K">>),
          cardCount |-> Len(unique_cards),
          cards     |-> unique_cards ]

\* The run summary (step 6).

summary_of(new_cards, by_set, mmap) ==
    [ total_cards        |-> Len(new_cards),
      sets_created       |-> Cardinality(DOMAIN by_set),
      migration_mappings |-> Len(mmap),
      variant_counts     |->
          [v \in {new_cards[i].variant : i \in 1..Len(new_cards)} |->
              Cardinality({i \in 1..Len(new_cards) : new_cards[i].variant = v})],
      missing_images     |->
          Cardinality({i \in 1..Len(new_cards) :
              \/ new_cards[i].imageUrl = <<>>
              \/ StartsWith(new_cards[i].imageUrl, LocalPrefix)}) ]

\* --------------------------------------------------------------------
\* Inputs: the upstream records and the data directory before the first run
\* --------------------------------------------------------------------

MaxRaw == 2
MaxRuns == 2

Fabled == <<"F","a","b","l","e","d">>
FAB001 == <<"F","A","B","-","0","0","1">>
FAB002 == <<"F","A","B","-","0","0","2">>

NoImage ==
    [ digital |-> [large |-> <<>>, normal |-> <<>>, small |-> <<>>],
      large |-> <<>>, normal |-> <<>>, small |-> <<>> ]

DigitalLarge == [NoImage EXCEPT !.digital.large = <<"u","1">>]
FlatSmall == [NoImage EXCEPT !.small = <<"u","2">>]

Raw(name, version, set_name, set_code, collector_number, rarity, image_uris) ==
    [ name |-> name, version |-> version, set_name |-> set_name,
      set_code |-> set_code, collector_number |-> collector_number,
      rarity |-> rarity, image_uris |-> image_uris ]

Common == <<"C","o","m","m","o","n">>

RawPool ==
    { Raw(<<"A">>, <<>>, Fabled, <<"7">>, <<"1">>, Common, DigitalLarge),
      Raw(<<"A">>, <<>>, Fabled, <<"7">>, <<"1">>, Epic, NoImage),
      Raw(<<"A">>, <<>>, Fabled, <<"7">>, <<"1","a">>, <<"R","a","r","e">>, FlatSmall),
      Raw(<<"A">>, <<>>, Fabled, <<"7">>, <<"0">>, Common, NoImage),
      Raw(<<"A"," ","B">>, <<>>, <<"S"," ","T">>, <<"F","A","B">>, <<"1">>, Common, DigitalLarge),
      Raw(<<"A","_","B">>, <<>>, <<"S","_","T">>, <<"2">>, <<"1">>, Common, DigitalLarge),
      Raw(<<"B">>, <<>>, <<>>, <<"7">>, <<"3">>, Common, DigitalLarge),
      Raw(<<>>, <<>>, Fabled, <<"7">>, <<"5">>, Common, DigitalLarge) }

SeqsUpTo(S, n) == UNION { [1..k -> S] : k \in 0..n }

\* A card as an earlier run of the script wrote it.
OldCard(id, name, set_name, unique_id, card_num) ==
    [ id |-> id, name |-> name, setName |-> set_name, imageUrl |-> <<"u","0">>,
      variant |-> Normal, cardNumber |-> card_num, uniqueId |-> unique_id ]

\* A card as the older scripts of the repository wrote it: no id.
LegacyCard(name, set_name, unique_id, card_num) ==
    [ Name |-> name, Set_Name |-> set_name, Unique_ID |-> unique_id,
      Card_Num |-> card_num ]

Catalog(set_name, set_code, cards) ==
    [ setName |-> set_name, setCode |-> set_code, cardCount |-> Len(cards),
      cards |-> cards ]

FabledFile == filename_of(Fabled)
FabledV1File == <<"f","a","b","l","e","d","_","v","1">> \o DotJson
STFile == filename_of(<<"S"," ","T">>)
BrokenFile == <<"b","r","o","k","e","n">> \o DotJson

FabledCatalog ==
    Catalog(Fabled, <<"F","A","B">>,
        << OldCard(<<"F","a","b","l","e","d","_","1","_","B">>, <<"B">>, Fabled, FAB001, 1),
           OldCard(<<"F","a","b","l","e","d","_","2","_","A">>, <<"A">>, Fabled, FAB002, 2) >>)

FabledV1Catalog ==
    Catalog(Fabled, <<"7">>,
        << OldCard(<<"f","3">>, <<"A">>, Fabled, <<"7","-","0","0","3">>, 3),
           OldCard(<<"f","1">>, <<"C">>, Fabled, <<"7","-","0","0","1">>, 1),
           LegacyCard(<<"B">>, Fabled, <<"7","-","0","0","2">>, 2) >>)

STCatalog ==
    Catalog(<<"S"," ","T">>, <<"U","N","K">>,
        << OldCard(<<"S","_","T","_","1","_","Z">>, <<"Z">>, <<"S"," ","T">>,
                   <<"9","-","0","0","1">>, 1) >>)

OldDisks ==
    { [exists |-> FALSE, files |-> <<>>],
      [exists |-> TRUE, files |-> (FabledV1File :> FabledV1Catalog)],
      [exists |-> TRUE, files |-> (FabledFile :> FabledCatalog)
                                    @@ (FabledV1File :> FabledV1Catalog)],
      [exists |-> TRUE, files |-> (STFile :> STCatalog)
                                    @@ (BrokenFile :> [corrupt |-> TRUE])],
      [exists |-> TRUE, files |-> (FabledFile :> Catalog(Fabled, <<"F","A","B">>, <<>>))
                                    @@ (BrokenFile :> [corrupt |-> TRUE])] }

\* --------------------------------------------------------------------
\* State
\* --------------------------------------------------------------------

VARIABLES
    upstream,        \* the upstream catalog: a sequence of raw records
    disk,            \* the data directory
    pc,              \* where download_and_convert stands
    run,             \* the number of runs started
    old_disk,        \* the data directory as the current run found it
    existing_cards,  \* the local of that name
    all_cards_data,  \* the local of that name
    cards_by_set,    \* the local of that name
    to_write,        \* the set names the loop of step 4 has yet to reach
    all_new_cards,   \* the local of that name
    migration_map,   \* the map build_migration_map is building
    map_i,           \* the new cards build_migration_map has been through
    summary,         \* what step 6 reports
    answered,        \* what the API answered to the first run
    history          \* of each completed run: its fetched records, its files

vars == << upstream, disk, pc, run, old_disk, existing_cards, all_cards_data,
           cards_by_set, to_write, all_new_cards, migration_map, map_i,
           summary, answered, history >>

NoSummary == <<>>

Init ==
    /\ upstream \in SeqsUpTo(RawPool, MaxRaw)
    /\ disk \in OldDisks
    /\ pc = "idle"
    /\ run = 0
    /\ old_disk = disk
    /\ existing_cards = <<>>
    /\ all_cards_data = <<>>
    /\ cards_by_set = <<>>
    /\ to_write = <<>>
    /\ all_new_cards = <<>>
    /\ migration_map = <<>>
    /\ map_i = 0
    /\ summary = NoSummary
    /\ answered = <<>>
    /\ history = <<>>

\* --------------------------------------------------------------------
\* download_and_convert, step by step
\* --------------------------------------------------------------------

\* Step 1 (lines 349-352): a run starts and loads the existing cards.
Load ==
    /\ pc \in {"idle", "done", "aborted"}
    /\ run < MaxRuns
    /\ run' = run + 1
    /\ old_disk' = disk
    /\ existing_cards' \in load_existing_cards(disk)
    /\ all_cards_data' = <<>>
    /\ cards_by_set' = <<>>
    /\ to_write' = <<>>
    /\ all_new_cards' = <<>>
    /\ migration_map' = <<>>
    /\ map_i' = 0
    /\ summary' = NoSummary
    /\ pc' = "loaded"
    /\ UNCHANGED << upstream, disk, answered, history >>

\* Fetch with the data directory made before the return of step 2.
Fetch_making_directory ==
    /\ pc = "loaded"
    /\ \E sets_ok \in BOOLEAN, epic_ok \in BOOLEAN, iconic_ok \in BOOLEAN,
          failed \in SUBSET {upstream[i].set_code : i \in 1..Len(upstream)} :
          LET got == fetch_all_cards_from_api(upstream, sets_ok, failed,
                                              epic_ok, iconic_ok)
          IN  /\ run > 1 => got = answered
              /\ answered' = got
              /\ IF got.none \/ got.cards = <<>>
                 THEN /\ pc' = "aborted"
                      /\ all_cards_data' = <<>>
                 ELSE /\ pc' = "fetched"
                      /\ all_cards_data' = got.cards
    /\ disk' = [disk EXCEPT !.exists = TRUE]
    /\ UNCHANGED << upstream, run, old_disk, existing_cards, cards_by_set,
                    to_write, all_new_cards, migration_map, map_i, summary,
                    history >>

\* Step 2 (lines 355-359): the fetch, and the return when nothing came.
\* A re-run meets the upstream, and the failures, of the first run.
Fetch ==
    /\ pc = "loaded"
    /\ \E sets_ok \in BOOLEAN, epic_ok \in BOOLEAN, iconic_ok \in BOOLEAN,
          failed \in SUBSET {upstream[i].set_code : i \in 1..Len(upstream)} :
          LET got == fetch_all_cards_from_api(upstream, sets_ok, failed,
                                              epic_ok, iconic_ok)
          IN  /\ run > 1 => got = answered
              /\ answered' = got
              /\ IF got.none \/ got.cards = <<>>
                 THEN /\ pc' = "aborted"
                      /\ all_cards_data' = <<>>
                 ELSE /\ pc' = "fetched"
                      /\ all_cards_data' = got.cards
    /\ UNCHANGED << upstream, disk, run, old_disk, existing_cards, cards_by_set,
                    to_write, all_new_cards, migration_map, map_i, summary,
                    history >>

\* Step 3 and the head of step 4 (lines 365-394): the cards are converted
\* and grouped, the data directory is made.
Convert ==
    /\ pc = "fetched"
    /\ cards_by_set' = group_by_set(all_cards_data)
    /\ to_write' = SortedNames(DOMAIN cards_by_set')
    /\ disk' = [disk EXCEPT !.exists = TRUE]
    /\ all_new_cards' = <<>>
    /\ pc' = IF to_write' = <<>> THEN "mapping" ELSE "writing"
    /\ UNCHANGED << upstream, run, old_disk, existing_cards, all_cards_data,
                    migration_map, map_i, summary, answered, history >>

\* One iteration of the loop of step 4 (lines 396-424).
WriteSet ==
    /\ pc = "writing"
    /\ to_write # <<>>
    /\ LET set_name == Head(to_write)
           set_data == set_data_of(set_name, cards_by_set[set_name])
       IN  /\ disk' = [disk EXCEPT !.files =
                          (filename_of(set_name) :> set_data) @@ @]
           /\ all_new_cards' = all_new_cards \o set_data.cards
    /\ to_write' = Tail(to_write)
    /\ pc' = IF to_write' = <<>> THEN "mapping" ELSE "writing"
    /\ UNCHANGED << upstream, run, old_disk, existing_cards, all_cards_data,
                    cards_by_set, migration_map, map_i, summary, answered,
                    history >>

\* MapStep that looks the old cards up in the directory as it is now.
MapStep_from_disk ==
    /\ pc = "mapping"
    /\ map_i < Len(all_new_cards)
    /\ \E e \in load_existing_cards(disk) :
          migration_map' = migrate_card(migration_map, e,
                                        all_new_cards[map_i + 1])
    /\ map_i' = map_i + 1
    /\ UNCHANGED << upstream, disk, pc, run, old_disk, existing_cards,
                    all_cards_data, cards_by_set, to_write, all_new_cards,
                    summary, answered, history >>

\* One iteration of the loop of build_migration_map (lines 238-280).
MapStep ==
    /\ pc = "mapping"
    /\ map_i < Len(all_new_cards)
    /\ migration_map' = migrate_card(migration_map, existing_cards,
                                     all_new_cards[map_i + 1])
    /\ map_i' = map_i + 1
    /\ UNCHANGED << upstream, disk, pc, run, old_disk, existing_cards,
                    all_cards_data, cards_by_set, to_write, all_new_cards,
                    summary, answered, history >>

migration_date == <<"2","0","2","5","-","1","1","-","2","2">>

\* The rest of step 5 and step 6 (lines 432-470).
WriteMap ==
    /\ pc = "mapping"
    /\ map_i = Len(all_new_cards)
    /\ disk' = [disk EXCEPT !.files =
                   (MigrationFileName :>
                      [ version        |-> <<"1",".","0">>,
                        migration_date |-> migration_date,
                        total_mappings |-> Len(migration_map),
                        mappings       |-> migration_map ]) @@ @]
    /\ summary' = summary_of(all_new_cards, cards_by_set, migration_map)
    /\ history' = Append(history,
                         [ data  |-> all_cards_data,
                           files |-> {filename_of(n) : n \in DOMAIN cards_by_set} ])
    /\ pc' = "done"
    /\ UNCHANGED << upstream, run, old_disk, existing_cards, all_cards_data,
                    cards_by_set, to_write, all_new_cards, migration_map, map_i,
                    answered >>

Next == Load \/ Fetch \/ Convert \/ WriteSet \/ MapStep \/ WriteMap

Spec == Init /\ [][Next]_vars

\* --------------------------------------------------------------------
\* convert_card_to_app_format on pairs of raw records
\* --------------------------------------------------------------------

IdNames ==
    { <<"A"," ","B">>, <<"A","_","B">>, <<"A","-","B">>, <<"A","B">>,
      <<"A","'","B">> }

IdSets == { <<"S"," ","T">>, <<"S","_","T">> }

IdNumbers == { <<>>, <<"0">>, <<"1">>, <<"x">> }

IdPool ==
    { Raw(n, <<>>, st, <<"9">>, num, r, NoImage) :
        n \in IdNames, st \in IdSets, num \in IdNumbers,
        r \in {Common, Enchanted} }

InitIds ==
    /\ upstream \in [1..2 -> IdPool]
    /\ disk = [exists |-> FALSE, files |-> <<>>]
    /\ pc = "raw"
    /\ run = 0
    /\ old_disk = disk
    /\ existing_cards = <<>>
    /\ all_cards_data = <<>>
    /\ cards_by_set = <<>>
    /\ to_write = <<>>
    /\ all_new_cards = <<>>
    /\ migration_map = <<>>
    /\ map_i = 0
    /\ summary = NoSummary
    /\ answered = <<>>
    /\ history = <<>>

\* The two records are converted.
ConvertPair ==
    /\ pc = "raw"
    /\ all_new_cards' = [i \in 1..2 |-> convert_card_to_app_format(upstream[i])]
    /\ pc' = "converted"
    /\ UNCHANGED << upstream, disk, run, old_disk, existing_cards,
                    all_cards_data, cards_by_set, to_write, migration_map,
                    map_i, summary, answered, history >>

NextIds == ConvertPair

SpecIds == InitIds /\ [][NextIds]_vars

\* --------------------------------------------------------------------
\* convert_card_to_app_format on single raw records
\* --------------------------------------------------------------------

ConvRarities ==
    { Common, <<"E","N","C","H","A","N","T","E","D">>, <<"E","p","i","c">>, <<"I","c","o","n","i","c">>, <<"P","r","o","m","o">>, <<"S","u","p","e","r"," ","R","a","r","e">>, <<"E","p","i","c"," ","E","n","c","h","a","n","t","e","d">>, <<"i","c","o","n","i","c"," ","p","r","o","m","o">> }

ConvSets == { <<"S"," ","T">>, <<"P","r","o","m","o"," ","S","e","t">>, Fabled }

ConvImages ==
    { NoImage, DigitalLarge, FlatSmall,
      [NoImage EXCEPT !.digital.normal = <<"u","3">>, !.large = <<"u","4">>] }

ConvPool ==
    { Raw(<<"A">>, <<>>, st, <<"9">>, num, r, img) :
        st \in ConvSets, num \in {<<>>, <<"1">>}, r \in ConvRarities,
        img \in ConvImages }

InitConvert ==
    /\ upstream \in [1..1 -> ConvPool]
    /\ disk = [exists |-> FALSE, files |-> <<>>]
    /\ pc = "record"
    /\ run = 0
    /\ old_disk = disk
    /\ existing_cards = <<>>
    /\ all_cards_data = <<>>
    /\ cards_by_set = <<>>
    /\ to_write = <<>>
    /\ all_new_cards = <<>>
    /\ migration_map = <<>>
    /\ map_i = 0
    /\ summary = NoSummary
    /\ answered = <<>>
    /\ history = <<>>

\* The record is converted.
ConvertOne ==
    /\ pc = "record"
    /\ all_new_cards' = <<convert_card_to_app_format(upstream[1])>>
    /\ pc' = "card"
    /\ UNCHANGED << upstream, disk, run, old_disk, existing_cards,
                    all_cards_data, cards_by_set, to_write, migration_map,
                    map_i, summary, answered, history >>

NextConvert == ConvertOne

SpecConvert == InitConvert /\ [][NextConvert]_vars

\* --------------------------------------------------------------------
\* Properties
\* --------------------------------------------------------------------

IdOf(card) == Get(card, "id", NoneStr)

Range(s) == { s[i] : i \in 1..Len(s) }

UidHit(n) ==
    TruthyStr(n.uniqueId) /\ uidKey(n.uniqueId) \in DOMAIN existing_cards

NameHit(n) == nameKey(n.name, n.setName) \in DOMAIN existing_cards

NumHit(n) ==
    TruthyNum(n.cardNumber)
      /\ numKey(n.cardNumber, n.setName) \in DOMAIN existing_cards

ByUid(n) == existing_cards[uidKey(n.uniqueId)]
ByName(n) == existing_cards[nameKey(n.name, n.setName)]
ByNum(n) == existing_cards[numKey(n.cardNumber, n.setName)]

\* The map holds, under old id oid, an entry from oid to the new id nid.
HasEntry(oid, nid) ==
    \E i \in 1..Len(migration_map) :
        /\ migration_map[i].k = oid
        /\ migration_map[i].v.old_id = oid
        /\ migration_map[i].v.new_id = nid

\* The new card build_migration_map has just been through.
MapStepped == pc \in {"mapping", "done"} /\ map_i >= 1
LastCard == all_new_cards[map_i]

\* C1: the strategies are tried in the order uniqueId, name+set,
\* number+set and the first hit stands: right after a new card is processed,
\* if its uniqueId is indexed to an old card A (with an id) the entry under
\* A's id leads to the new card, whatever name+set and number+set are
\* indexed to; without a uniqueId hit, if name+set is indexed to B the entry
\* under B's id leads to the new card, whatever number+set is indexed to.
C1_StrategyPrecedence ==
    MapStepped =>
        /\ (UidHit(LastCard) /\ TruthyStr(IdOf(ByUid(LastCard))))
              => HasEntry(IdOf(ByUid(LastCard)), LastCard.id)
        /\ (~UidHit(LastCard) /\ NameHit(LastCard)
              /\ TruthyStr(IdOf(ByName(LastCard))))
              => HasEntry(IdOf(ByName(LastCard)), LastCard.id)

\* C1's case: the card just processed is indexed by uniqueId to one old
\* card and by name+set to another, and the entry is under the first.
C1_Witness ==
    /\ MapStepped
    /\ UidHit(LastCard) /\ NameHit(LastCard)
    /\ TruthyStr(IdOf(ByUid(LastCard))) /\ TruthyStr(IdOf(ByName(LastCard)))
    /\ IdOf(ByUid(LastCard)) # IdOf(ByName(LastCard))
    /\ HasEntry(IdOf(ByUid(LastCard)), LastCard.id)

\* The second half of C1's case: no uniqueId hit, name+set and number+set
\* indexed to two old cards.
C1_NameBeforeNumberReached ==
    /\ MapStepped
    /\ ~UidHit(LastCard) /\ NameHit(LastCard) /\ NumHit(LastCard)
    /\ TruthyStr(IdOf(ByName(LastCard))) /\ TruthyStr(IdOf(ByNum(LastCard)))
    /\ IdOf(ByName(LastCard)) # IdOf(ByNum(LastCard))

\* C2: no fabrication: when the map is complete, no entry's new_id is the
\* id of a new card that none of the three lookups finds an old card for.
C2_NoFabrication ==
    pc = "done" =>
        \A i \in 1..Len(all_new_cards) :
            LET n == all_new_cards[i]
            IN  ~(UidHit(n) \/ NameHit(n) \/ NumHit(n))
                  => ~\E j \in 1..Len(migration_map) :
                          migration_map[j].v.new_id = n.id

\* The ids of the cards the files of the directory held when the run
\* loaded them.
OldIds ==
    IF ~old_disk.exists THEN {}
    ELSE UNION { { IdOf(c) : c \in Range(cards_of_file(f, old_disk.files[f])) }
                 : f \in DOMAIN old_disk.files }

\* C3: the migration map is a partial function on old ids: no old id is a
\* key twice, each entry is keyed by its own old_id, and every old id is the
\* id of a card of the files that were on disk when the run loaded them.
C3_PartialFunctionOnOldIds ==
    pc \in {"mapping", "done"} =>
        /\ \A i, j \in 1..Len(migration_map) :
              migration_map[i].k = migration_map[j].k => i = j
        /\ \A i \in 1..Len(migration_map) :
              /\ migration_map[i].v.old_id = migration_map[i].k
              /\ migration_map[i].k \in OldIds

\* C3's case: a finished run whose map has two entries, written to the
\* migration file as they are.
C3_Witness ==
    /\ pc = "done"
    /\ Len(migration_map) >= 2
    /\ disk.files[MigrationFileName].mappings = migration_map

\* The old id build_migration_map settles on for a new card, None if it
\* finds no old card.
MatchedId(n) ==
    LET m == match_of(existing_cards, n)
    IN  IF m.old_card = NoCard THEN NoneStr ELSE IdOf(m.old_card)

\* C4 as stated: every new card for which some strategy finds an old card
\* with an id has an entry of the finished map leading to it, also when
\* several new cards hit the same old card.
C4_EveryHitEmitted ==
    pc = "done" =>
        \A i \in 1..Len(all_new_cards) :
            TruthyStr(MatchedId(all_new_cards[i]))
              => \E j \in 1..Len(migration_map) :
                    migration_map[j].v.new_id = all_new_cards[i].id

\* The last new card, in the order of processing, that hits old id oid.
LastHit(oid) ==
    CHOOSE i \in 1..Len(all_new_cards) :
        /\ MatchedId(all_new_cards[i]) = oid
        /\ \A j \in 1..Len(all_new_cards) :
              MatchedId(all_new_cards[j]) = oid => j <= i

\* C4 amended: every old id that some new card hits is a key of the
\* finished map, and its entry leads to the last new card, in the order of
\* processing, that hits it.
C4_LastHitEmitted ==
    pc = "done" =>
        \A i \in 1..Len(all_new_cards) :
            TruthyStr(MatchedId(all_new_cards[i]))
              => HasEntry(MatchedId(all_new_cards[i]),
                          all_new_cards[LastHit(MatchedId(all_new_cards[i]))].id)

\* C4's case: two new cards with different ids hit the same old card.
C4_Witness ==
    /\ pc = "done"
    /\ \E i, j \in 1..Len(all_new_cards) :
          /\ i < j
          /\ TruthyStr(MatchedId(all_new_cards[i]))
          /\ MatchedId(all_new_cards[i]) = MatchedId(all_new_cards[j])
          /\ all_new_cards[i].id # all_new_cards[j].id
          /\ HasEntry(MatchedId(all_new_cards[j]), all_new_cards[j].id)

\* A second run has finished: the first run finished too, both fetched the
\* same records, and the files the second run found are those the first run
\* wrote.
Rerun ==
    /\ run = 2 /\ pc = "done" /\ Len(history) = 2
    /\ history[1].data = history[2].data
    /\ old_disk.exists
    /\ DOMAIN old_disk.files \subseteq history[1].files \cup {MigrationFileName}

OneSetCarries(u) ==
    \A i, j \in 1..Len(all_new_cards) :
        (all_new_cards[i].uniqueId = u /\ all_new_cards[j].uniqueId = u)
          => all_new_cards[i].setName = all_new_cards[j].setName

C5_SharedUniqueIdReached ==
    /\ Rerun
    /\ \E i, j \in 1..Len(all_new_cards) :
          /\ i # j
          /\ TruthyStr(all_new_cards[i].uniqueId)
          /\ all_new_cards[i].uniqueId = all_new_cards[j].uniqueId
          /\ OneSetCarries(all_new_cards[i].uniqueId)
          /\ \E k \in 1..Len(migration_map) :
                migration_map[k].v.new_unique_id = all_new_cards[i].uniqueId

\* The (assembled name, set name, parsed collector number, variant) of a
\* converted card.
IdTuple(c) == <<c.name, c.setName, c.cardNumber, c.variant>>

\* C6: the id is injective on the (name, set name, collector number,
\* variant) tuple: two converted records have the same id exactly when they
\* have the same tuple.
C6_IdInjective ==
    pc = "converted" =>
        ((IdTuple(all_new_cards[1]) = IdTuple(all_new_cards[2]))
            <=> (all_new_cards[1].id = all_new_cards[2].id))

\* The fetched records as converted, and those of set S.
Converted(k) == convert_card_to_app_format(all_cards_data[k])

RecordsOf(S) == {k \in 1..Len(all_cards_data) : Converted(k).setName = S}

\* The sets whose catalog the run has written by now.
WrittenSets ==
    IF pc \in {"writing", "mapping", "done"}
    THEN DOMAIN cards_by_set \ Range(to_write) ELSE {}

CatalogOf(S) == disk.files[filename_of(S)]

\* The first record of set S, in fetch order, that synthesizes id.
FirstRecord(S, id) ==
    CHOOSE k \in RecordsOf(S) :
        /\ Converted(k).id = id
        /\ \A l \in RecordsOf(S) : Converted(l).id = id => k <= l

Dropped == Cardinality({k \in 1..Len(all_cards_data) :
                           Converted(k).setName # <<>>}) - Len(all_new_cards)

\* The duplicate count the run records: the summary of step 6 has no such
\* count, and a count that is not there reads as 0.
RecordedDuplicates ==
    IF "duplicates" \in DOMAIN summary THEN summary["duplicates"] ELSE 0

\* C8: dropped duplicates are counted and surfaced: at the end of a run
\* the recorded duplicate count equals the number of converted records
\* dropped because an earlier record had the same id.
C8_DuplicatesCounted ==
    pc = "done" => RecordedDuplicates = Dropped

\* C9: determinism: the migration map of a finished run is the one every
\* order of the directory listing of load_existing_cards leads to, the
\* fetched records and the old files being the same.
C9_ListingOrderIrrelevant ==
    pc = "done" =>
        \A e \in load_existing_cards(old_disk) :
            build_migration_map(e, all_new_cards) = migration_map

mmNumberSet == <<"n","u","m","b","e","r","+","s","e","t">>

MethodOf(strategy) ==
    IF strategy = 1 THEN mmUniqueId
    ELSE IF strategy = 2 THEN mmNameSet
    ELSE mmNumberSet

\* C10: the match method of an entry names the strategy that produced its
\* hit: right after a new card is processed, the entry under the old id it
\* hit carries uniqueId for strategy 1, name+set for strategy 2 and
\* number+set for strategy 3.
C10_MethodNamesStrategy ==
    (MapStepped /\ TruthyStr(MatchedId(LastCard))) =>
        \A i \in 1..Len(migration_map) :
            migration_map[i].k = MatchedId(LastCard)
              => migration_map[i].v.match_method
                   = MethodOf(match_of(existing_cards, LastCard).strategy)

\* The cards of the files the run loaded, and the name, set name and
\* collector number load_existing_cards reads from one of them.
OldCards ==
    IF ~old_disk.exists THEN {}
    ELSE UNION { Range(cards_of_file(f, old_disk.files[f]))
                 : f \in DOMAIN old_disk.files }

OldName(c) == OrStr(Get(c, "name", NoneStr), Get(c, "Name", <<>>))
OldSet(c) == OrStr(Get(c, "setName", NoneStr), Get(c, "Set_Name", <<>>))
OldNum(c) == OrNum(Get(c, "cardNumber", NoneNum), Get(c, "Card_Num", NoneNum))
OldUid(c) == OrStr(Get(c, "uniqueId", NoneStr), Get(c, "Unique_ID", <<>>))

\* The entry of the map under old id oid leads to new id nid by method.
HasEntryBy(oid, nid, method) ==
    \E i \in 1..Len(migration_map) :
        /\ migration_map[i].k = oid
        /\ migration_map[i].v.new_id = nid
        /\ migration_map[i].v.match_method = method

\* C11 as stated: for every new card and every old card A (with an id) of
\* the same name and set name and another collector number, the finished
\* map holds the entry A.id -> new id with method name+set, whatever the
\* new number's print slot held before.
C11_NameMatchSurvivesRenumbering ==
    pc = "done" =>
        \A i \in 1..Len(all_new_cards) : \A A \in OldCards :
            ( /\ OldName(A) = all_new_cards[i].name
              /\ OldSet(A) = all_new_cards[i].setName
              /\ OldNum(A) # all_new_cards[i].cardNumber
              /\ TruthyStr(IdOf(A)) )
              => HasEntryBy(IdOf(A), all_new_cards[i].id, mmNameSet)

\* C11 amended: a name+set match survives renumbering when the new
\* uniqueId is not in the old index: right after a new card is processed
\* whose uniqueId misses and whose name and set name are indexed to old card
\* A (with an id) of another collector number, the entry under A's id leads
\* to the new card by method name+set; when the new uniqueId is indexed to
\* an old card B (with an id), the entry under B's id leads to the new card
\* by method uniqueId instead.
C11_NameMatchWhenUniqueIdMisses ==
    MapStepped =>
        /\ ( /\ ~UidHit(LastCard) /\ NameHit(LastCard)
             /\ OldNum(ByName(LastCard)) # LastCard.cardNumber
             /\ TruthyStr(IdOf(ByName(LastCard))) )
             => HasEntryBy(IdOf(ByName(LastCard)), LastCard.id, mmNameSet)
        /\ ( /\ UidHit(LastCard) /\ TruthyStr(IdOf(ByUid(LastCard))) )
             => HasEntryBy(IdOf(ByUid(LastCard)), LastCard.id, mmUniqueId)

\* C11's case: a renumbered card (it has a uniqueId, the index does not)
\* is matched by name and set to an old card of another number.
C11_Witness ==
    /\ MapStepped
    /\ TruthyStr(LastCard.uniqueId) /\ ~UidHit(LastCard) /\ NameHit(LastCard)
    /\ TruthyNum(OldNum(ByName(LastCard)))
    /\ OldNum(ByName(LastCard)) # LastCard.cardNumber
    /\ HasEntryBy(IdOf(ByName(LastCard)), LastCard.id, mmNameSet)

\* The other case of C11: the new number is the print slot of another old
\* card, which takes the card by uniqueId.
C11_SlotTakenReached ==
    /\ MapStepped
    /\ UidHit(LastCard) /\ NameHit(LastCard)
    /\ IdOf(ByUid(LastCard)) # IdOf(ByName(LastCard))
    /\ OldNum(ByName(LastCard)) # LastCard.cardNumber
    /\ HasEntryBy(IdOf(ByUid(LastCard)), LastCard.id, mmUniqueId)

\* The raw collector number of a record fails to parse: it is empty, or
\* int() raises on it.
FailsToParse(r) ==
    r.collector_number = <<>> \/ ParseInt(r.collector_number) = NoneNum

\* C12: absent and zero collector numbers are distinct: the converted
\* card has no cardNumber, and no uniqueId, exactly when the raw number fails
\* to parse, and a record whose number parses to 0 keeps cardNumber 0 and
\* gets the uniqueId <setCode>-000.
C12_AbsentAndZeroDistinct ==
    pc = "converted" =>
        \A i \in 1..2 :
            /\ (all_new_cards[i].cardNumber = NoneNum) <=> FailsToParse(upstream[i])
            /\ (all_new_cards[i].uniqueId = NoneStr) <=> FailsToParse(upstream[i])
            /\ (~FailsToParse(upstream[i]) /\ ParseInt(upstream[i].collector_number) = 0)
                 => /\ all_new_cards[i].cardNumber = 0
                    /\ all_new_cards[i].uniqueId
                         = upstream[i].set_code \o <<"-","0","0","0">>

\* Card a may stand before card b in a catalog: by collector number
\* ascending, an absent number after every number, and by variant name
\* ascending among equal numbers.
MayPrecede(a, b) ==
    IF a.cardNumber = NoneNum /\ b.cardNumber = NoneNum
    THEN ~StrLess(b.variant, a.variant)
    ELSE IF a.cardNumber = NoneNum THEN FALSE
    ELSE IF b.cardNumber = NoneNum THEN TRUE
    ELSE \/ a.cardNumber < b.cardNumber
         \/ a.cardNumber = b.cardNumber /\ ~StrLess(b.variant, a.variant)

\* C13: in every catalog the run has written the cards are ordered by
\* collector number ascending, the cards without a number after every
\* numbered card, and cards of equal number by variant name ascending.
C13_CatalogOrder ==
    \A S \in WrittenSets :
        CatalogOf(S).setName = S =>
            \A i, j \in 1..Len(CatalogOf(S).cards) :
                i < j => MayPrecede(CatalogOf(S).cards[i], CatalogOf(S).cards[j])

\* The fetched records without a name or without a set name.
Unusable ==
    {k \in 1..Len(all_cards_data) :
        all_cards_data[k].name = <<>> \/ all_cards_data[k].set_name = <<>>}

\* The rejection count the run records: the summary of step 6 has no such
\* count, and a count that is not there reads as 0.
RecordedRejections ==
    IF "rejected" \in DOMAIN summary THEN summary["rejected"] ELSE 0

\* C14: a record without a name or without a set name is rejected: at the
\* end of a run it is in no catalog the run wrote and no entry of the map
\* leads to it, and the rejections are counted.
C14_UnusableRejected ==
    pc = "done" =>
        /\ \A k \in Unusable :
              /\ \A S \in WrittenSets :
                    Converted(k) \notin Range(CatalogOf(S).cards)
              /\ \A i \in 1..Len(migration_map) :
                    migration_map[i].v.new_id # Converted(k).id
        /\ RecordedRejections = Cardinality(Unusable)

\* The directory the run found holds no old snapshot: it does not exist,
\* or none of its files is a readable catalog with cards.
NoSnapshot ==
    \/ ~old_disk.exists
    \/ \A f \in DOMAIN old_disk.files :
          \/ ~EndsWith(f, DotJson)
          \/ "corrupt" \in DOMAIN old_disk.files[f]
          \/ "cards" \notin DOMAIN old_disk.files[f]
          \/ old_disk.files[f].cards = <<>>

\* C15: first run: without an old snapshot the index a run loads is empty
\* and its migration map stays empty, and at its end the catalog of every set
\* of the new data is on disk and the written map is empty.
C15_FirstRun ==
    (run >= 1 /\ NoSnapshot) =>
        /\ existing_cards = <<>>
        /\ migration_map = <<>>
        /\ pc = "done" =>
              /\ \A S \in DOMAIN cards_by_set :
                    /\ filename_of(S) \in DOMAIN disk.files
                    /\ disk.files[filename_of(S)].setName \in DOMAIN cards_by_set
                    /\ disk.files[filename_of(S)].cards # <<>>
              /\ disk.files[MigrationFileName].mappings = <<>>

\* C15's case: a run without a data directory has written its catalogs
\* and been through every new card.
C15_Witness ==
    /\ pc = "done" /\ ~old_disk.exists
    /\ Len(all_new_cards) >= 2 /\ map_i = Len(all_new_cards)
    /\ migration_map = <<>>
    /\ \A S \in DOMAIN cards_by_set : filename_of(S) \in DOMAIN disk.files

\* The other case of C15: the directory is there, without a catalog that
\* has cards.
C15_EmptyDirectoryReached ==
    /\ pc = "done" /\ old_disk.exists /\ NoSnapshot
    /\ Len(all_new_cards) >= 1 /\ migration_map = <<>>

\* C16: a run aborts only when the set listing cannot be fetched:
\* whenever a run has returned at step 2, fetch_all_cards_from_api had
\* answered None, never a collection of cards, be it empty.
C16_AbortsOnlyWithoutListing ==
    pc = "aborted" => answered.none

\* C17: a run replaces a set's catalog wholesale: at the end of a run
\* the catalog file of every set of the new data holds that set's name and
\* exactly the deduplicated cards converted from this run's records of the
\* set: every card of the file is converted from a record of the set, and
\* every record of the set has its id in the file once.
C17_CatalogReplacedWholesale ==
    pc = "done" =>
        \A S \in DOMAIN cards_by_set :
            /\ filename_of(S) \in DOMAIN disk.files
            /\ CatalogOf(S).setName = S
            /\ \A c \in Range(CatalogOf(S).cards) :
                  \E k \in RecordsOf(S) : c = Converted(k)
            /\ \A k \in RecordsOf(S) :
                  Cardinality({i \in 1..Len(CatalogOf(S).cards) :
                      CatalogOf(S).cards[i].id = Converted(k).id}) = 1

VariantTags == {Normal, Foil, Enchanted, Epic, Iconic, Promo, Borderless}

\* A hint is in the rarity text, or in the set name, whatever the case.
InRarity(r, kw) == Contains(Lower(r.rarity), kw)
InSetName(r, kw) == Contains(Lower(r.set_name), kw)

\* C18: the variant of a converted record follows the priority enchanted,
\* epic, iconic, promo, Normal, whatever the case of the text, a keyword of
\* the rarity before a hint of the set name, and is one tag of the closed set.
C18_VariantPriority ==
    pc = "card" =>
        LET r == upstream[1]
            v == all_new_cards[1].variant
        IN  /\ v \in VariantTags
            /\ InRarity(r, kwEnchanted) => v = Enchanted
            /\ (~InRarity(r, kwEnchanted) /\ InRarity(r, kwEpic)) => v = Epic
            /\ ( /\ ~InRarity(r, kwEnchanted) /\ ~InRarity(r, kwEpic)
                 /\ InRarity(r, kwIconic) ) => v = Iconic
            /\ ( /\ ~InRarity(r, kwEnchanted) /\ ~InRarity(r, kwEpic)
                 /\ ~InRarity(r, kwIconic)
                 /\ (InSetName(r, kwPromo) \/ InRarity(r, kwPromo)) ) => v = Promo
            /\ ( /\ ~InRarity(r, kwEnchanted) /\ ~InRarity(r, kwEpic)
                 /\ ~InRarity(r, kwIconic)
                 /\ ~InSetName(r, kwPromo) /\ ~InRarity(r, kwPromo) ) => v = Normal

\* C18's case: an upper-case ENCHANTED rarity in a set whose name has
\* Promo in it is Enchanted.
C18_Witness ==
    /\ pc = "card"
    /\ upstream[1].rarity # Lower(upstream[1].rarity)
    /\ InRarity(upstream[1], kwEnchanted)
    /\ InSetName(upstream[1], kwPromo)
    /\ all_new_cards[1].variant = Enchanted

\* C19: strategy 2 matches on name, set and variant: right after a new
\* card is processed that the name+set strategy found an old card (with an
\* id) for, that old card has the variant of the new card.
C19_NameMatchKeepsVariant ==
    ( /\ MapStepped
      /\ match_of(existing_cards, LastCard).strategy = 2
      /\ TruthyStr(MatchedId(LastCard)) )
      => Get(match_of(existing_cards, LastCard).old_card, "variant", Normal)
           = LastCard.variant

\* C20: the stages run in the order deduplicate, reconcile, write: there
\* is no state in which a catalog of the run is on disk and the run's
\* migration map has not been computed.
C20_NoCatalogBeforeMap ==
    WrittenSets # {} =>
        (pc \in {"mapping", "done"} /\ map_i = Len(all_new_cards))

\* The orders in which the records of s can arrive.
ArrivalOrders(s) ==
    { [i \in 1..Len(s) |-> s[p[i]]] :
        p \in {q \in [1..Len(s) -> 1..Len(s)] :
                 \A i, j \in 1..Len(s) : q[i] = q[j] => i = j} }

\* The catalogs the loop of step 4 makes of the fetched records raws, in
\* the order it writes them.
RECURSIVE catalogs_of(_, _)
catalogs_of(by_set, names) ==
    IF names = <<>> THEN <<>>
    ELSE <<set_data_of(Head(names), by_set[Head(names)])>>
           \o catalogs_of(by_set, Tail(names))

RECURSIVE cards_of_catalogs(_)
cards_of_catalogs(catalogs) ==
    IF catalogs = <<>> THEN <<>>
    ELSE Head(catalogs).cards \o cards_of_catalogs(Tail(catalogs))

CatalogsFrom(raws) ==
    LET by_set == group_by_set(raws)
    IN  catalogs_of(by_set, SortedNames(DOMAIN by_set))

\* C21: the arrival order of the fetched records does not matter: at the
\* end of a run, every permutation of the fetched records yields, with the
\* index the run loaded, the same catalogs and the same migration map as
\* the run wrote.
C21_ArrivalOrderIrrelevant ==
    pc = "done" =>
        LET written == CatalogsFrom(all_cards_data)
        IN  \A p \in ArrivalOrders(all_cards_data) :
               LET catalogs == CatalogsFrom(p)
               IN  /\ catalogs = written
                   /\ build_migration_map(existing_cards,
                                          cards_of_catalogs(catalogs))
                        = migration_map

\* The data directory d without its migration map file.
WithoutMap(d) ==
    [d EXCEPT !.files = [f \in DOMAIN d.files \ {MigrationFileName} |-> d.files[f]]]

\* The data directory d with the migration map file holding mappings.
WithMap(d, mappings) ==
    [d EXCEPT !.files =
        (MigrationFileName :>
           [ version        |-> <<"1",".","0">>,
             migration_date |-> migration_date,
             total_mappings |-> Len(mappings),
             mappings       |-> mappings ]) @@ @]

\* Another migration map than the one a run left: one entry, made of one
\* of the old cards of the directory.
OtherMap(d) ==
    LET cards == UNION { Range(cards_of_file(f, d.files[f])) : f \in DOMAIN d.files }
    IN  IF cards = {} THEN <<>>
        ELSE LET c == CHOOSE c \in cards : TRUE
             IN  << [ k |-> <<"o">>,
                      v |-> [ old_id |-> <<"o">>, new_id |-> IdOf(c),
                              new_unique_id |-> OldUid(c), name |-> OldName(c),
                              set |-> OldSet(c), variant |-> Normal,
                              match_method |-> mmUniqueId ] ] >>

\* C22: the migration map is never read back: when a run has loaded its
\* index from a data directory, the indexes load_existing_cards can build
\* from that directory are those it can build from it without the
\* migration map file, or with another map in it, and the index loaded is
\* one of them; when a run that found a migration map is done, its index
\* is one of the directory without the map, and its map is built from
\* that index and its new cards.
C22_MapNeverReadBack ==
    /\ (pc = "loaded" /\ old_disk.exists) =>
          LET indexes == load_existing_cards(WithoutMap(old_disk))
          IN  /\ load_existing_cards(old_disk) = indexes
              /\ load_existing_cards(WithMap(old_disk, OtherMap(old_disk)))
                   = indexes
              /\ existing_cards \in indexes
    /\ (pc = "done" /\ old_disk.exists
          /\ MigrationFileName \in DOMAIN old_disk.files) =>
          /\ existing_cards \in load_existing_cards(WithoutMap(old_disk))
          /\ migration_map = build_migration_map(existing_cards, all_new_cards)

\* C22's case: a second run has finished in a directory where the first
\* run left a migration map with entries, and has entries of its own.
C22_Witness ==
    /\ run = 2 /\ pc = "done"
    /\ MigrationFileName \in DOMAIN old_disk.files
    /\ old_disk.files[MigrationFileName].mappings # <<>>
    /\ existing_cards # <<>>
    /\ migration_map # <<>>

\* The name token as stated: spaces replaced by underscores, hyphens and
\* apostrophes dropped.
StatedNameToken(full_name) ==
    Replace(Replace(Replace(full_name, " ", <<"_">>), "-", <<>>), "'", <<>>)

\* The id as stated, of a converted card c.
StatedId(c) ==
    Replace(c.setName, " ", <<"_">>) \o <<"_">>
      \o Digits(IF c.cardNumber = NoneNum THEN 0 ELSE c.cardNumber) \o <<"_">>
      \o StatedNameToken(c.name)
      \o (IF c.variant # Normal THEN <<"_">> \o c.variant ELSE <<>>)

\* C23: the id of a converted card is the set name with spaces as
\* underscores, the collector number or 0, and the name token (the
\* assembled name with spaces as underscores, hyphens and apostrophes
\* dropped), joined by underscores, with the variant appended when it is
\* not Normal.
C23_IdFormat ==
    pc = "converted" =>
        \A i \in 1..Len(all_new_cards) :
            all_new_cards[i].id = StatedId(all_new_cards[i])

\* The first present of the six upstream images of a raw record, "" when
\* it has none.
FirstImage(r) ==
    LET u == r.image_uris
        six == << u.digital.large, u.digital.normal, u.digital.small,
                  u.large, u.normal, u.small >>
        present == {i \in 1..6 : six[i] # <<>>}
    IN  IF present = {} THEN <<>>
        ELSE six[CHOOSE i \in present : \A j \in present : i <= j]

\* C24: the imageUrl of a converted card is the first present of
\* digital-large, digital-normal, digital-small, flat-large, flat-normal,
\* flat-small; a card without an upstream image has a placeholder that is
\* not empty, starts with local: and ends with its unique code, followed
\* by - and the variant slug when the variant is not Normal, and the
\* summary counts it among the cards needing local images.
C24_ImageCascade ==
    pc = "card" =>
        LET r == upstream[1]
            c == all_new_cards[1]
        IN  IF FirstImage(r) # <<>> THEN c.imageUrl = FirstImage(r)
            ELSE /\ c.imageUrl # <<>>
                 /\ StartsWith(c.imageUrl, <<"l","o","c","a","l",":">>)
                 /\ TruthyStr(c.uniqueId) =>
                       EndsWith(c.imageUrl,
                                c.uniqueId \o (IF c.variant = Normal THEN <<>>
                                               ELSE <<"-">> \o Lower(c.variant)))
                 /\ summary_of(all_new_cards, <<>>, <<>>).missing_images = 1

\* C25: the index used for reconciliation is the one of the catalogs as
\* the run found them: nothing is written before it is loaded and the
\* records are fetched; the migration map is built from it and the new
\* cards alone; and when the run is done it is an index of the directory
\* as it was before the run wrote anything.
C25_PreWriteIndex ==
    run >= 1 =>
        /\ pc \in {"loaded", "fetched"} => disk = old_disk
        /\ pc = "done" => existing_cards \in load_existing_cards(old_disk)
        /\ pc \in {"mapping", "done"} =>
              migration_map = build_migration_map(existing_cards,
                                  SubSeq(all_new_cards, 1, map_i))

\* C25's case: a run has written catalogs that would index otherwise than
\* the ones it found, and has built a map with entries.
C25_Witness ==
    /\ pc = "done" /\ map_i >= 1
    /\ old_disk.exists /\ existing_cards # <<>>
    /\ existing_cards \notin load_existing_cards(disk)
    /\ migration_map # <<>>

\* The new cards build_migration_map has been through have pairwise
\* distinct ids.
DistinctNewIds ==
    \A i, j \in 1..map_i :
        all_new_cards[i].id = all_new_cards[j].id => i = j

\* C26: the migration map is injective on new ids: while the new cards
\* processed so far have pairwise distinct ids, no two entries of the map
\* carry the same new_id, and the map has at most one entry per new card.
C26_InjectiveOnNewIds ==
    (pc \in {"mapping", "done"} /\ DistinctNewIds) =>
        /\ \A i, j \in 1..Len(migration_map) :
              migration_map[i].v.new_id = migration_map[j].v.new_id => i = j
        /\ Len(migration_map) <= map_i

\* C26's case: new cards with distinct ids have left two entries.
C26_Witness ==
    /\ pc = "done" /\ DistinctNewIds
    /\ map_i = Len(all_new_cards)
    /\ Len(migration_map) >= 2

\* The old ids the new cards hit.
MatchedOldIds ==
    { MatchedId(all_new_cards[i]) : i \in 1..Len(all_new_cards) } \ {NoneStr, <<>>}

\* The new cards of set S, in the order of processing.
ProcessedOf(S) == SelectSeq(all_new_cards, LAMBDA c : c.setName = S)

\* C27: when several new cards resolve to the same old id the finished map
\* keeps the entry of the one processed last and none of the earlier ones;
\* the cards are processed by ascending set name and, within a set, in the
\* order of the set's catalog; the map has as many entries as there are
\* distinct matched old ids.
C27_LastProcessedWins ==
    pc = "done" =>
        /\ \A i, j \in 1..Len(all_new_cards) :
              i < j => \/ all_new_cards[i].setName = all_new_cards[j].setName
                       \/ StrLess(all_new_cards[i].setName, all_new_cards[j].setName)
        /\ \A S \in DOMAIN cards_by_set :
              ProcessedOf(S) = set_data_of(S, cards_by_set[S]).cards
        /\ \A oid \in MatchedOldIds :
              \E k \in 1..Len(migration_map) :
                  /\ migration_map[k].k = oid
                  /\ migration_map[k].v
                       = entry_of(existing_cards, oid, all_new_cards[LastHit(oid)])
        /\ \A k \in 1..Len(migration_map) : migration_map[k].k \in MatchedOldIds
        /\ Len(migration_map) = Cardinality(MatchedOldIds)

\* C27's case: of two new cards that resolve to the same old id, the
\* earlier one has lost its entry to the later one.
C27_Witness ==
    /\ pc = "done"
    /\ \E i, j \in 1..Len(all_new_cards) :
          /\ i < j
          /\ MatchedId(all_new_cards[i]) \in MatchedOldIds
          /\ MatchedId(all_new_cards[i]) = MatchedId(all_new_cards[j])
          /\ LastHit(MatchedId(all_new_cards[i])) = j
          /\ all_new_cards[i].id # all_new_cards[j].id
          /\ \A k \in 1..Len(migration_map) :
                migration_map[k].v.new_id # all_new_cards[i].id
    /\ Len(migration_map) = Cardinality(MatchedOldIds)

\* The lookup keys an old card is stored under.
KeysOf(c) ==
    IF ~TruthyStr(OldName(c)) THEN {}
    ELSE (IF TruthyStr(OldUid(c)) THEN {uidKey(OldUid(c))} ELSE {})
         \cup (IF TruthyStr(OldSet(c)) THEN {nameKey(OldName(c), OldSet(c))} ELSE {})
         \cup (IF TruthyNum(OldNum(c)) /\ TruthyStr(OldSet(c))
               THEN {numKey(OldNum(c), OldSet(c))} ELSE {})

\* The cards of the files of d, in the order the listing ord loads them.
RECURSIVE LoadedCards(_, _)
LoadedCards(d, ord) ==
    IF ord = <<>> THEN <<>>
    ELSE cards_of_file(Head(ord), d.files[Head(ord)]) \o LoadedCards(d, Tail(ord))

\* The directory listings of d, as far as they matter: the orders of its
\* files that have cards (a file without cards loads nothing wherever it
\* is listed).
Listings(d) ==
    IF ~d.exists THEN {<<>>}
    ELSE ArrivalOrders(SortedNames(
             {f \in DOMAIN d.files : cards_of_file(f, d.files[f]) # <<>>}))

\* C28: in the index a run has loaded every lookup key resolves to one old
\* card: for some order of the directory listing, the keys of the index are the
\* keys of the cards loaded, and each key resolves to the card loaded last
\* (files in listing order, cards in file order) among those stored under it.
C28_LastLoadedWins ==
    pc = "loaded" =>
        \E ord \in Listings(old_disk) :
            LET loaded == LoadedCards(old_disk, ord)
            IN  /\ DOMAIN existing_cards
                     = UNION { KeysOf(loaded[i]) : i \in 1..Len(loaded) }
                /\ \A key \in DOMAIN existing_cards :
                      \E i \in 1..Len(loaded) :
                          /\ key \in KeysOf(loaded[i])
                          /\ existing_cards[key] = loaded[i]
                          /\ \A j \in (i + 1)..Len(loaded) :
                                key \notin KeysOf(loaded[j])

\* C28's case: two different old cards were stored under one key of the
\* index the run loaded, and the key resolves to one of them.
C28_Witness ==
    /\ pc = "loaded"
    /\ \E key \in DOMAIN existing_cards :
          \E c \in OldCards :
              /\ key \in KeysOf(c)
              /\ c # existing_cards[key]
              /\ key \in KeysOf(existing_cards[key])

\* The other case of C28: the two cards sharing the key are in one file.
C28_SameFileReached ==
    /\ pc = "loaded" /\ old_disk.exists
    /\ \E f \in DOMAIN old_disk.files :
          LET cards == cards_of_file(f, old_disk.files[f])
          IN  \E i, j \in 1..Len(cards) :
                 /\ i < j
                 /\ cards[i] # cards[j]
                 /\ \E key \in KeysOf(cards[i]) \cap KeysOf(cards[j]) :
                        existing_cards[key] = cards[j]

\* C29: an aborted run leaves the stored state unchanged: when a run has
\* returned at step 2, the data directory, its catalog files and its
\* migration map file are as the run found them, and the run has neither
\* built a map nor reported a summary.
C29_AbortLeavesDiskUnchanged ==
    pc = "aborted" =>
        /\ disk = old_disk
        /\ migration_map = <<>>
        /\ summary = NoSummary

\* C29's case: the set listing was fetched and no card was, in a
\* directory that holds catalogs; the run has returned.
C29_Witness ==
    /\ pc = "aborted" /\ run >= 1
    /\ ~answered.none /\ answered.cards = <<>>
    /\ upstream # <<>>
    /\ old_disk.exists /\ DOMAIN old_disk.files # {}

\* The other cases of C29: the set listing failed; there is no data
\* directory, and none after the run.
C29_ListingFailedReached ==
    /\ pc = "aborted" /\ answered.none /\ upstream # <<>>
    /\ ~old_disk.exists /\ ~disk.exists

\* C30: each written per-set catalog is consistent: at the end of a run
\* the catalog written for a set of the new data has a cardCount equal to
\* the number of its cards, every card of it has the catalog's setName, and
\* the uniqueId of every card that has one starts with the catalog's
\* setCode followed by -, also for a set name that is not in SET_CODE_MAP.
C30_CatalogConsistent ==
    pc = "done" =>
        \A S \in DOMAIN cards_by_set :
            LET catalog == set_data_of(S, cards_by_set[S])
            IN  /\ catalog.cardCount = Len(catalog.cards)
                /\ \A c \in Range(catalog.cards) :
                      /\ c.setName = catalog.setName
                      /\ TruthyStr(c.uniqueId) =>
                            StartsWith(c.uniqueId, catalog.setCode \o <<"-">>)

\* The other case of C22: a second run has loaded its index from a
\* directory where the first run left a migration map with entries.
C22_LoadedBesideMapReached ==
    /\ run = 2 /\ pc = "loaded"
    /\ MigrationFileName \in DOMAIN old_disk.files
    /\ old_disk.files[MigrationFileName].mappings # <<>>
    /\ existing_cards # <<>>

=============================================================================
